---- MODULE Spec2Model ----
(***************************************************************************)
(* Model of drone-tree-config (plugin/plugin.go): the resolution of the    *)
(* .drone.yml files that apply to a build, by walking the changed files'   *)
(* directories upward (getScmConfigData) or by the full scan               *)
(* (getAllConfigData), and the merge of the configs found.                 *)
(*                                                                         *)
(* Texts are sequences of symbols.  The punctuation the code inspects      *)
(* ("-", ".", ":", " ", newline, tab, carriage return) is one symbol per   *)
(* character; a run of other characters (a YAML word such as kind, name,   *)
(* pipeline) is one symbol, since no string operation of the code looks    *)
(* inside such a run.                                                      *)
(*                                                                         *)
(* Paths are sequences of segments: "/a/b/x.go" is <<"a","b","x.go">> and  *)
(* the root "/" is << >>.                                                  *)
(***************************************************************************)
EXTENDS Integers, Sequences, FiniteSets, TLC

\* ------------------------------------------------------------------ bounds
\* longest changed-file list the SCM reports
MaxFiles == 2

\* ------------------------------------------------------------------- texts
NL == "\n"

Drop(s, n) == SubSeq(s, n + 1, Len(s))

Take(s, n) == SubSeq(s, 1, n)

\* strings.HasPrefix
HasPrefix(s, p) == Len(s) >= Len(p) /\ SubSeq(s, 1, Len(p)) = p

\* strings.HasSuffix
HasSuffix(s, p) == Len(s) >= Len(p) /\ SubSeq(s, Len(s) - Len(p) + 1, Len(s)) = p

RECURSIVE TrimLeft(_, _)
TrimLeft(s, cutset) ==
    IF s # << >> /\ Head(s) \in cutset THEN TrimLeft(Tail(s), cutset) ELSE s

RECURSIVE TrimRight(_, _)
TrimRight(s, cutset) ==
    IF s # << >> /\ s[Len(s)] \in cutset
    THEN TrimRight(Take(s, Len(s) - 1), cutset)
    ELSE s

\* strings.Trim(a, cutset): drops the leading and trailing symbols of cutset
Trim(s, cutset) == TrimRight(TrimLeft(s, cutset), cutset)

\* a cutset without the space
TrimCutsetNewlineOnly == {NL}

\* the cutset " \n" of droneConfigAppend
TrimCutset == {" ", NL}

Sep == <<"-", "-", "-">>

SepLine == <<"-", "-", "-", NL>>

EndMarker == <<".", ".", ".">>

\* strings.ReplaceAll(s, "...", ""): leftmost non-overlapping occurrences
RECURSIVE StripEndMarkers(_)
StripEndMarkers(s) ==
    IF s = << >> THEN << >>
    ELSE IF HasPrefix(s, EndMarker) THEN StripEndMarkers(Drop(s, 3))
    ELSE <<Head(s)>> \o StripEndMarkers(Tail(s))

\* the class \s of Go's regexp (RE2): [\t\n\f\r ]
IsSpace(c) == c \in {" ", NL, "\t", "\r", "\f"}

\* length of the longest prefix of s made of \s symbols
RECURSIVE SpaceRun(_)
SpaceRun(s) ==
    IF s # << >> /\ IsSpace(Head(s)) THEN 1 + SpaceRun(Tail(s)) ELSE 0

\* one repetition of the group (---[\s]*) at the start of s: its length, 0 if none
GroupLen(s) == IF HasPrefix(s, Sep) THEN 3 + SpaceRun(Drop(s, 3)) ELSE 0

\* greedy repetitions of the group at the start of s: <<count, total length>>
RECURSIVE GroupRun(_)
GroupRun(s) ==
    IF GroupLen(s) = 0 THEN <<0, 0>>
    ELSE LET r == GroupRun(Drop(s, GroupLen(s)))
         IN  <<r[1] + 1, r[2] + GroupLen(s)>>

\* length of the match of dedupRegex (---[\s]*){2,} at the start of s, 0 if none
DedupMatchLen(s) == IF GroupRun(s)[1] >= 2 THEN GroupRun(s)[2] ELSE 0

\* dedupRegex.ReplaceAll(s, "---"): each leftmost match replaced by "---"
RECURSIVE DedupReplaceAll(_)
DedupReplaceAll(s) ==
    IF s = << >> THEN << >>
    ELSE IF DedupMatchLen(s) > 0
         THEN Sep \o DedupReplaceAll(Drop(s, DedupMatchLen(s)))
         ELSE <<Head(s)>> \o DedupReplaceAll(Tail(s))

\* the cleanup of Find
Cleanup(configData) == DedupReplaceAll(StripEndMarkers(configData))

\* one fragment appended by droneConfigAppend
AppendOne(droneConfig, frag) ==
    LET a == Trim(frag, TrimCutset)
        b == IF HasPrefix(a, SepLine) THEN a ELSE SepLine \o a
        c == droneConfig \o b
    IN  IF a = << >> THEN droneConfig
        ELSE IF HasSuffix(c, <<NL>>) THEN c ELSE c \o <<NL>>

\* droneConfigAppend(droneConfig, appends...)
RECURSIVE droneConfigAppend(_, _)
droneConfigAppend(droneConfig, appends) ==
    IF appends = << >> THEN droneConfig
    ELSE droneConfigAppend(AppendOne(droneConfig, Head(appends)), Tail(appends))

\* --------------------------------------------------------- YAML validation
Punctuation == {"-", ".", ":", " ", NL, "\t", "\r", "\f"}

IsWord(c) == c \notin Punctuation

\* the lines of a text (split at newlines)
RECURSIVE SplitLines(_, _)
SplitLines(s, cur) ==
    IF s = << >> THEN <<cur>>
    ELSE IF Head(s) = NL THEN <<cur>> \o SplitLines(Tail(s), << >>)
    ELSE SplitLines(Tail(s), Append(cur, Head(s)))

\* what the YAML parser makes of one top-level line
LineKind(line) ==
    LET t == TrimRight(line, {" ", "\t", "\r"})
    IN  IF t = << >> THEN "blank"
        ELSE IF t = Sep THEN "sep"
        ELSE IF t = EndMarker THEN "end"
        ELSE IF Len(t) = 4 /\ IsWord(t[1]) /\ t[2] = ":" /\ t[3] = " " /\ IsWord(t[4])
             THEN "entry"
        ELSE IF Len(t) = 2 /\ IsWord(t[1]) /\ t[2] = ":" THEN "entry"
        ELSE "bad"

\* the lines of the first YAML document of a stream (the only one Unmarshal decodes)
RECURSIVE FirstDoc(_, _)
FirstDoc(lines, started) ==
    IF lines = << >> THEN << >>
    ELSE LET k == LineKind(Head(lines))
         IN  IF k = "blank" THEN FirstDoc(Tail(lines), started)
             ELSE IF k = "sep" /\ ~started THEN FirstDoc(Tail(lines), TRUE)
             ELSE IF k \in {"sep", "end"} THEN << >>
             ELSE <<Head(lines)>> \o FirstDoc(Tail(lines), TRUE)

\* the value of a top-level key in the document's lines, "" when missing or null
RECURSIVE Field(_, _)
Field(lines, key) ==
    IF lines = << >> THEN ""
    ELSE IF Head(lines)[1] = key
         THEN (IF Len(TrimRight(Head(lines), {" ", "\t", "\r"})) = 4 THEN Head(lines)[4] ELSE "")
         ELSE Field(Tail(lines), key)

\* yaml.Unmarshal([]byte(fileContent), &dc) for dc of type droneConfig
yamlUnmarshal(fileContent) ==
    LET doc == FirstDoc(SplitLines(fileContent, << >>), FALSE)
    IN  IF \E i \in 1..Len(doc) : LineKind(doc[i]) = "bad"
        THEN [err |-> "yaml", Name |-> "", Kind |-> ""]
        ELSE [err |-> "nil", Name |-> Field(doc, "name"), Kind |-> Field(doc, "kind")]

\* ------------------------------------------------------------ the repository
\* file contents a candidate path may hold
ValidA == <<"kind", ":", " ", "pipeline", NL, "name", ":", " ", "a", NL>>

ValidB == <<"-", "-", "-", NL, "kind", ":", " ", "pipeline", NL, "name", ":", " ", "b", NL,
            ".", ".", ".">>

NoName == <<"kind", ":", " ", "pipeline", NL>>

BadYaml == <<"kind", ":", " ", "pipeline", NL, "name">>

Samples == {ValidA, ValidB, NoName, BadYaml}

\* a nil pointer (no data, no document)
Nil == <<"<nil>">>

ErrNil == "nil"

\* what Client.Contents.Find returns for a path: (data, err)
Found(c) == [data |-> c, err |-> ErrNil]

NotFound == [data |-> << >>, err |-> "not found"]

NilData == [data |-> Nil, err |-> ErrNil]

Transport == [data |-> << >>, err |-> "transport"]

Outcomes == {NotFound, NilData, Transport} \cup {Found(c) : c \in Samples}

\* req.Repo.Config
Config == ".drone.yml"

\* the paths the SCM may report as changed; abs: the path has a leading "/"
RawPaths ==
    { [abs |-> FALSE, segs |-> <<"a", "b", "x.go">>],
      [abs |-> TRUE,  segs |-> <<"a", "y.go">>],
      [abs |-> FALSE, segs |-> <<"w.go">>] }

\* the changed-file lists the SCM may report (no file listed twice)
ChangeLists ==
    { s \in UNION { [1..n -> RawPaths] : n \in 0..MaxFiles } :
        \A i, j \in DOMAIN s : i # j => s[i] # s[j] }

ZeroHash == "0000000000000000000000000000000000000000"

\* the build events
Requests ==
    { [Trigger |-> "@cron", Ref |-> <<"refs", "heads", "main">>, Before |-> "c0", After |-> "c1"],
      [Trigger |-> "@cron", Ref |-> <<"refs", "pull", "7", "head">>, Before |-> "c0", After |-> "c1"],
      [Trigger |-> "@hook", Ref |-> <<"refs", "pull", "7", "head">>, Before |-> "c0", After |-> "c1"],
      [Trigger |-> "@hook", Ref |-> <<"refs", "pull", "x", "head">>, Before |-> "c0", After |-> "c1"],
      [Trigger |-> "@hook", Ref |-> <<"refs", "heads", "main">>, Before |-> "c0", After |-> "c1"],
      [Trigger |-> "@hook", Ref |-> <<"refs", "heads", "main">>, Before |-> ZeroHash, After |-> "c1"],
      [Trigger |-> "@hook", Ref |-> <<"refs", "heads", "main">>, Before |-> "", After |-> "c1"] }

\* the plugin configurations New may be given
Plugins == [concat : BOOLEAN, fallback : BOOLEAN, maxDepth : {-1, 2}]

\* ------------------------------------------------------------------ paths
\* the step to the parent directory forgotten: path.Join(dir, ".")
ParentStuck(dir) == dir

\* path.Join(dir, ".."): the parent directory, the root being its own parent
Parent(dir) == IF dir = << >> THEN << >> ELSE Take(dir, Len(dir) - 1)

\* path.Join(dir, req.Repo.Config)
Candidate(dir) == Append(dir, Config)

\* if !strings.HasPrefix(file, "/") { file = "/" + file }
Normalize(raw) == [abs |-> TRUE, segs |-> raw.segs]

\* -------------------------------------------------------------------- state
VARIABLES
    p,             \* the plugin: concat, fallback, maxDepth
    req,           \* the build event of the request
    pc,            \* position of Find: start, walk, scan, finish, done
    changedFiles,  \* the slice getScmChanges returned
    fileIdx,       \* getScmConfigData: index of the changed file being walked
    dir,           \* getScmConfigData: dir of the inner loop
    done,          \* getScmConfigData: done of the inner loop
    cache,         \* getScmConfigData: the candidate paths already checked
    configData,    \* the accumulated document
    err,           \* the error the locator or the scanner returned
    result,        \* what Find returned: doc (Nil when none) and err
    calls,         \* history: the SCM calls made, in order, with their answers
    merged,        \* history: the candidate paths whose content was appended
    other          \* the request-scoped state of a second, suspended request, if any

vars == <<p, req, pc, changedFiles, fileIdx, dir, done, cache, configData, err,
          result, calls, merged, other>>

NilSlice == [nil |-> TRUE, elems |-> << >>]

Slice(s) == [nil |-> FALSE, elems |-> s]

NoResult == [doc |-> Nil, err |-> "pending"]

\* no second request is being served
NoOther == [id |-> 0]

Init ==
    /\ p \in Plugins
    /\ req \in Requests
    /\ pc = "start"
    /\ changedFiles = NilSlice
    /\ fileIdx = 0
    /\ dir = << >>
    /\ done = FALSE
    /\ cache = {}
    /\ configData = << >>
    /\ err = ErrNil
    /\ result = NoResult
    /\ calls = << >>
    /\ merged = << >>
    /\ other = NoOther

\* ------------------------------------------------------- Change-Set Resolver
\* strings.HasPrefix(req.Build.Ref, "refs/pull/")
IsPullRef(ref) == Len(ref) >= 3 /\ ref[1] = "refs" /\ ref[2] = "pull"

\* strconv.Atoi on the segments the model's refs use
Atoi(s) ==
    IF s = "7" THEN [n |-> 7, err |-> ErrNil] ELSE [n |-> 0, err |-> "atoi"]

\* the start of the revision range of a push build
BeforeRef(r) ==
    IF r.Before = ZeroHash \/ r.Before = ""
    THEN <<r.After, "~1">>
    ELSE <<r.Before>>

\* the SCM call getScmChanges makes for the request, api = "none" when it makes none
ChangesCall(r) ==
    IF r.Trigger = "@cron" THEN [api |-> "none", arg |-> << >>]
    ELSE IF IsPullRef(r.Ref)
         THEN (IF Atoi(r.Ref[3]).err # ErrNil
               THEN [api |-> "none", arg |-> << >>]
               ELSE [api |-> "PullRequests.ListChanges", arg |-> <<r.Ref[3]>>])
    ELSE [api |-> "Git.ListChanges", arg |-> <<r.After>>]

\* getScmChanges, given the SCM's answer (files, err) to the call it makes
getScmChanges(r, files, scmErr) ==
    IF r.Trigger = "@cron" THEN [files |-> NilSlice, err |-> ErrNil]
    ELSE IF IsPullRef(r.Ref) /\ Atoi(r.Ref[3]).err # ErrNil
         THEN [files |-> NilSlice, err |-> "atoi"]
    ELSE IF scmErr # ErrNil THEN [files |-> NilSlice, err |-> scmErr]
    ELSE IF Len(files) > 0 THEN [files |-> Slice(files), err |-> ErrNil]
    ELSE [files |-> NilSlice, err |-> ErrNil]

\* the scheduled trigger scanning only when the fallback flag is on
DispatchCronNeedsFallback(files, trigger, fallback) ==
    IF ~files.nil THEN "walk"
    ELSE IF fallback THEN "scan"
    ELSE "finish"

\* the fallback scan taken whatever the fallback flag
DispatchAlwaysFallback(files, trigger, fallback) ==
    IF ~files.nil THEN "walk" ELSE "scan"

\* the branch Find takes once the changed files are known
FindDispatch(files, trigger, fallback) ==
    IF ~files.nil THEN "walk"
    ELSE IF trigger = "@cron" THEN "scan"
    ELSE IF fallback THEN "scan"
    ELSE "finish"

\* Find up to the choice of the locator or the scanner
Start(files, scmErr) ==
    /\ pc = "start"
    /\ LET call == ChangesCall(req)
           r == getScmChanges(req, files, scmErr)
           next == FindDispatch(r.files, req.Trigger, p.fallback)
       IN  /\ calls' = IF call.api = "none" THEN calls
                       ELSE Append(calls, [api |-> call.api, arg |-> call.arg,
                                           out |-> [data |-> << >>, err |-> scmErr]])
           /\ changedFiles' = r.files
           /\ IF r.err # ErrNil
              THEN /\ result' = [doc |-> Nil, err |-> r.err]
                   /\ pc' = "done"
                   /\ UNCHANGED <<fileIdx, dir, done>>
              ELSE /\ result' = result
                   /\ pc' = next
                   /\ IF next = "walk"
                      THEN /\ fileIdx' = 1
                           /\ dir' = Normalize(r.files.elems[1]).segs
                           /\ done' = FALSE
                      ELSE UNCHANGED <<fileIdx, dir, done>>
    /\ UNCHANGED <<p, req, cache, configData, err, merged, other>>

\* --------------------------------------------------------- Fetch-and-Validate
\* getScmFile, given what Contents.Find returned for the file
getScmFile(out) ==
    LET e == IF out.data = Nil THEN "is not a file" ELSE out.err
    IN  IF e # ErrNil THEN [content |-> << >>, err |-> e]
        ELSE [content |-> out.data, err |-> ErrNil]

\* a parse failure reported as non-critical
ParseFailureSkipped(e) == [configData |-> << >>, critical |-> FALSE, err |-> e]

\* the result of getScmDroneConfig when yaml.Unmarshal fails with error e
ParseFailure(e) == [configData |-> << >>, critical |-> TRUE, err |-> e]

\* the result of getScmDroneConfig when name or kind is empty; e is the err
\* variable at that point, the (nil) error of yaml.Unmarshal
MissingField(e) == [configData |-> << >>, critical |-> TRUE, err |-> e]

\* getScmDroneConfig, given what Contents.Find returned for the file
getScmDroneConfig(out) ==
    LET f == getScmFile(out)
        dc == yamlUnmarshal(f.content)
    IN  IF f.err # ErrNil THEN [configData |-> << >>, critical |-> FALSE, err |-> f.err]
        ELSE IF dc.err # ErrNil THEN ParseFailure(dc.err)
        ELSE IF dc.Name = "" \/ dc.Kind = "" THEN MissingField(dc.err)
        ELSE [configData |-> f.content, critical |-> FALSE, err |-> ErrNil]

\* ------------------------------------------------ Ancestor-Path Config Locator
\* the cache never consulted
CacheNeverHit(c, file) == FALSE

\* _, ok := cache[file]
CacheHit(c, file) == file \in c

\* the break taken in concat mode too
BreakAlways(concat) == TRUE

\* if !p.concat { break }
BreakAfterAppend(concat) == ~concat

\* the answers the SCM may give for a path: the one it gave before, if any
Answers(path) ==
    IF \E i \in DOMAIN calls : calls[i].api = "Contents.Find" /\ calls[i].arg = path
    THEN { calls[i].out : i \in { j \in DOMAIN calls :
                                    calls[j].api = "Contents.Find" /\ calls[j].arg = path } }
    ELSE Outcomes

\* the inner loop of getScmConfigData is left: next changed file, or return
LeaveWalk ==
    IF fileIdx < Len(changedFiles.elems)
    THEN /\ fileIdx' = fileIdx + 1
         /\ dir' = Normalize(changedFiles.elems[fileIdx + 1]).segs
         /\ done' = FALSE
         /\ pc' = "walk"
         /\ err' = err
    ELSE /\ pc' = "finish"
         /\ err' = ErrNil
         /\ UNCHANGED <<fileIdx, dir, done>>

\* the inner loop of getScmConfigData goes on with directory d, done flag dn
ContinueWalk(d, dn) ==
    IF dn THEN LeaveWalk
    ELSE /\ dir' = d
         /\ done' = dn
         /\ pc' = "walk"
         /\ UNCHANGED <<fileIdx, err>>

\* one iteration of the inner loop of getScmConfigData
WalkStep ==
    /\ pc = "walk"
    /\ LET dn == (dir = << >>)
           d == Parent(dir)
           file == Candidate(d)
       IN  IF CacheHit(cache, file)
           THEN /\ ContinueWalk(d, dn)
                /\ UNCHANGED <<cache, configData, calls, merged>>
           ELSE \E out \in Answers(file) :
                LET r == getScmDroneConfig(out)
                    data == droneConfigAppend(configData, <<r.configData>>)
                IN  /\ cache' = cache \cup {file}
                    /\ calls' = Append(calls, [api |-> "Contents.Find", arg |-> file,
                                               out |-> out])
                    /\ IF r.err # ErrNil
                       THEN IF r.critical
                            THEN /\ configData' = << >>
                                 /\ err' = r.err
                                 /\ pc' = "finish"
                                 /\ UNCHANGED <<fileIdx, dir, done, merged>>
                            ELSE /\ ContinueWalk(d, dn)
                                 /\ UNCHANGED <<configData, merged>>
                       ELSE /\ configData' = data
                            /\ merged' = IF data # configData THEN Append(merged, file)
                                         ELSE merged
                            /\ IF BreakAfterAppend(p.concat)
                               THEN LeaveWalk
                               ELSE ContinueWalk(d, dn)
    /\ UNCHANGED <<p, req, changedFiles, result, other>>

\* ----------------------------------------------- Directory-Tree Config Scanner
\* err2 := errors.New(string(ls.Data)): an error whose message is the listing
ListingError == "listing data"

\* getAllConfigData(ctx, req, dir, depth), given what Contents.Find returned for dir
getAllConfigData(out, depth, maxDepth) ==
    IF out.err # ErrNil THEN [configData |-> << >>, err |-> out.err]
    ELSE IF depth > maxDepth THEN [configData |-> << >>, err |-> ErrNil]
    ELSE [configData |-> << >>, err |-> ListingError]

\* what Contents.Find may return for a directory
ListOutcomes == {NotFound, Transport, Found(<<"a">>), Found(<<Config, NL, "a">>)}

\* the full scan: getAllConfigData(ctx, &req, "/", 0)
Scan ==
    /\ pc = "scan"
    /\ \E out \in ListOutcomes :
         LET r == getAllConfigData(out, 0, p.maxDepth)
         IN  /\ calls' = Append(calls, [api |-> "Contents.Find", arg |-> << >>, out |-> out])
             /\ configData' = r.configData
             /\ err' = r.err
    /\ pc' = "finish"
    /\ UNCHANGED <<p, req, changedFiles, fileIdx, dir, done, cache, result, merged, other>>

\* ------------------------------------------------------------ the end of Find
\* the empty result never detected
NoneFoundNever(data) == FALSE

\* if configData == "": no file found
NoneFound(data) == data = << >>

\* Find from the error check after the locator or scanner to its return
Finish ==
    /\ pc = "finish"
    /\ result' = IF err # ErrNil THEN [doc |-> Nil, err |-> err]
                 ELSE IF NoneFound(configData)
                      THEN [doc |-> Nil, err |-> "did not find a .drone.yml"]
                 ELSE [doc |-> Cleanup(configData), err |-> ErrNil]
    /\ pc' = "done"
    /\ UNCHANGED <<p, req, changedFiles, fileIdx, dir, done, cache, configData, err,
                   calls, merged, other>>

\* the SCM's answers to the list-changes call
GetChanges ==
    \E files \in ChangeLists, scmErr \in {ErrNil, "transport"} :
        /\ scmErr # ErrNil => files = << >>
        /\ Start(files, scmErr)

Next == GetChanges \/ WalkStep \/ Scan \/ Finish

Spec == Init /\ [][Next]_vars

\* getScmConfigData is sequential code and every SCM call returns: an iteration
\* of its inner loop that can run does run
SpecFair == Spec /\ WF_vars(WalkStep)

\* =================================================================== claims
\* the fetch-file-content calls made so far, in order
Fetches == SelectSeq(calls, LAMBDA c : c.api = "Contents.Find")

\* the getScmConfigData path was taken
Walked == ~changedFiles.nil

\* a fetch answered with the content of a file
HasContent(out) == out.err = ErrNil /\ out.data # Nil

\* a fetch answered with a config that has a kind and a name
IsValidOut(out) == HasContent(out) /\ out.data \in {ValidA, ValidB}

\* the document a valid config contributes: a separator line, its text without
\* separator and end-of-document marker, a newline
DocA == <<"-", "-", "-", NL, "kind", ":", " ", "pipeline", NL, "name", ":", " ", "a", NL>>

DocB == <<"-", "-", "-", NL, "kind", ":", " ", "pipeline", NL, "name", ":", " ", "b", NL, NL>>

DocOf(content) == IF content = ValidA THEN DocA ELSE DocB

\* the documents of the valid configs among a sequence of fetches, concatenated
RECURSIVE DocsOf(_)
DocsOf(fs) ==
    IF fs = << >> THEN << >>
    ELSE (IF IsValidOut(Head(fs).out) THEN DocOf(Head(fs).out.data) ELSE << >>)
         \o DocsOf(Tail(fs))

\* the candidate paths of one changed file: its directory and each ancestor, deepest first
CandidatesOf(raw) ==
    [i \in 1..Len(raw.segs) |-> Append(SubSeq(raw.segs, 1, Len(raw.segs) - i), Config)]

\* the candidate paths of a changed-file list in order of first encounter
RECURSIVE FirstEncounters(_, _)
FirstEncounters(files, seen) ==
    IF files = << >> THEN << >>
    ELSE LET new == SelectSeq(CandidatesOf(Head(files)), LAMBDA c : c \notin seen)
         IN  new \o FirstEncounters(Tail(files), seen \cup {new[i] : i \in DOMAIN new})

\* C1 (as claimed): in single-match mode the returned document holds exactly
\* one config, the one of the first candidate that validates across the walk
\* over all changed files, and no later changed file contributes a document.
C1_SingleMatchOneDocument ==
    (pc = "done" /\ ~p.concat /\ Walked /\ result.doc # Nil) =>
        /\ Len(merged) = 1
        /\ \E i \in DOMAIN Fetches :
             /\ IsValidOut(Fetches[i].out)
             /\ \A j \in 1..(i - 1) : ~IsValidOut(Fetches[j].out)
             /\ result.doc = DocOf(Fetches[i].out.data)

\* C2 (as claimed): a fetched candidate that parses as YAML but lacks kind or
\* name makes Find abort with an error: it is the last candidate fetched and
\* Find returns an error and no document.
C2_MissingFieldAborts ==
    \A i \in DOMAIN Fetches :
        (HasContent(Fetches[i].out) /\ Fetches[i].out.data = NoName) =>
            /\ i = Len(Fetches)
            /\ pc = "done" => result.doc = Nil /\ result.err # ErrNil
                              /\ result.err # "did not find a .drone.yml"

\* C3: a fetched candidate whose content fails to parse ends the resolution at
\* once: no candidate is fetched after it and Find returns the parse error and
\* no document, whatever was merged before.
C3_ParseFailureAborts ==
    \A i \in DOMAIN Fetches :
        (HasContent(Fetches[i].out) /\ Fetches[i].out.data = BadYaml) =>
            /\ i = Len(Fetches)
            /\ pc \in {"finish", "done"}
            /\ pc = "finish" => err = "yaml" /\ configData = << >>
            /\ pc = "done" => result = [doc |-> Nil, err |-> "yaml"]

\* C3 witness: a parse failure met after a valid config was merged, with a
\* changed file still unwalked
C3_Witness ==
    /\ pc = "done"
    /\ result = [doc |-> Nil, err |-> "yaml"]
    /\ merged # << >>
    /\ fileIdx < Len(changedFiles.elems)
    /\ Fetches[Len(Fetches)].out = Found(BadYaml)

\* C4: within one request no candidate path is fetched twice.
C4_NoDuplicateFetch ==
    \A i, j \in DOMAIN Fetches : i # j => Fetches[i].arg # Fetches[j].arg

\* C4 witness: two changed files sharing ancestors walked up to the root, the
\* root candidate looked at by both walks
C4_Witness ==
    /\ pc = "done"
    /\ Len(changedFiles.elems) = 2
    /\ Len(Fetches) = 3
    /\ \E i \in DOMAIN Fetches : Fetches[i].arg = <<Config>>
    /\ \E i \in DOMAIN Fetches : Fetches[i].arg = <<"a", Config>>
    /\ \A i \in DOMAIN Fetches : ~HasContent(Fetches[i].out)

\* C5 (as claimed): an SCM call that fails with a transport error ends the
\* resolution: it is the last call made and Find returns that error.
C5_TransportErrorIsFinal ==
    \A i \in DOMAIN calls :
        calls[i].out.err = "transport" =>
            /\ i = Len(calls)
            /\ pc \in {"finish", "done"}
            /\ pc = "done" => result = [doc |-> Nil, err |-> "transport"]

\* C6: in concat mode, when no fetched candidate is an invalid config, the
\* candidates fetched are the ancestors' candidates in order of first
\* encounter, each once, and the returned document is the documents of the
\* valid ones in that order, one per path.
C6_ConcatOrder ==
    (pc = "done" /\ p.concat /\ Walked
       /\ \A i \in DOMAIN Fetches :
            HasContent(Fetches[i].out) => IsValidOut(Fetches[i].out)) =>
        LET valid == SelectSeq(Fetches, LAMBDA c : IsValidOut(c.out))
        IN  /\ [i \in DOMAIN Fetches |-> Fetches[i].arg]
                 = FirstEncounters(changedFiles.elems, {})
            /\ merged = [i \in DOMAIN valid |-> valid[i].arg]
            /\ valid # << >> => result = [doc |-> DocsOf(Fetches), err |-> ErrNil]

\* C6 witness: changed files a/b/x.go and a/y.go, the same config text at a/b
\* and at a, none at the root: two documents, a/b first
C6_Witness ==
    /\ pc = "done"
    /\ p.concat
    /\ Len(changedFiles.elems) = 2
    /\ changedFiles.elems[1].segs = <<"a", "b", "x.go">>
    /\ changedFiles.elems[2].segs = <<"a", "y.go">>
    /\ merged = << <<"a", "b", Config>>, <<"a", Config>> >>
    /\ Fetches[1].out = Found(ValidA)
    /\ Fetches[2].out = Found(ValidA)
    /\ Fetches[3].out = NotFound
    /\ result.doc = DocA \o DocA

\* C7 (as claimed): when the full scan runs and the listing of the root
\* succeeds and names a config file, the scanner fetches that file and Find
\* does not fail with an error made of the listing.
C7_FullScanReturnsConfigs ==
    (pc = "done" /\ ~Walked /\ Len(calls) >= 1
       /\ calls[Len(calls)].arg = << >> /\ p.maxDepth >= 0
       /\ calls[1].api = "Contents.Find"
       /\ calls[1].out = Found(<<Config, NL, "a">>)) =>
        /\ \E i \in DOMAIN calls : calls[i].arg = <<Config>>
        /\ result.err # ListingError

\* the SCM diff APIs
DiffApis == {"Git.ListChanges", "PullRequests.ListChanges"}

\* C8: a scheduled build takes the full scan whatever the fallback flag and
\* the ref: the scanner lists the root, the locator never runs and no diff API
\* is called.
C8_CronFullScan ==
    (req.Trigger = "@cron" /\ pc # "start") =>
        /\ pc \in {"scan", "finish", "done"}
        /\ cache = {} /\ merged = << >> /\ fileIdx = 0
        /\ \A i \in DOMAIN calls : calls[i].api \notin DiffApis
        /\ pc \in {"finish", "done"} =>
             /\ Len(calls) = 1
             /\ calls[1].api = "Contents.Find" /\ calls[1].arg = << >>

\* C8 witness: a scheduled build on a pull-request ref with the fallback flag
\* off, after the scan
C8_Witness ==
    /\ pc = "done"
    /\ req.Trigger = "@cron"
    /\ ~p.fallback
    /\ req.Ref[2] = "pull"
    /\ Len(calls) = 1
    /\ calls[1].arg = << >>

\* the SCM answered the list-changes call with an empty list
EmptyChanges ==
    /\ Len(calls) >= 1
    /\ calls[1].api \in DiffApis
    /\ calls[1].out.err = ErrNil
    /\ changedFiles.nil

\* C9: not scheduled, no changed files, fallback off: Find returns the
\* not-found error with no directory listed and no candidate fetched.
C9_NoChangesNoFallback ==
    (req.Trigger # "@cron" /\ ~p.fallback /\ pc # "start" /\ EmptyChanges) =>
        /\ pc \in {"finish", "done"}
        /\ Len(calls) = 1
        /\ cache = {}
        /\ pc = "done" => result = [doc |-> Nil, err |-> "did not find a .drone.yml"]

\* C9 witness: such a request, finished
C9_Witness ==
    /\ pc = "done"
    /\ req.Trigger # "@cron"
    /\ ~p.fallback
    /\ EmptyChanges
    /\ result.err = "did not find a .drone.yml"

\* C10: with changed files and every candidate absent Find returns the
\* not-found error and no document; and a document Find returns comes with no
\* error and is not empty.
C10_NotFoundOrDocument ==
    pc = "done" =>
        /\ (Walked /\ \A i \in DOMAIN Fetches : Fetches[i].out \in {NotFound, NilData})
             => result = [doc |-> Nil, err |-> "did not find a .drone.yml"]
        /\ result.doc # Nil => result.err = ErrNil /\ result.doc # << >>
        /\ result.doc = Nil => result.err # ErrNil

\* C10 witness: two changed files, every candidate up to the root absent
C10_Witness ==
    /\ pc = "done"
    /\ Walked
    /\ Len(changedFiles.elems) = 2
    /\ Len(Fetches) = 3
    /\ \A i \in DOMAIN Fetches : Fetches[i].out \in {NotFound, NilData}
    /\ result = [doc |-> Nil, err |-> "did not find a .drone.yml"]

\* ============================================== the Merge/Emit Engine alone
\* longest fragment appended, in pieces
MaxParts == 4

\* the pieces fragments are made of: a separator, a hyphen, the white space
\* characters, an end-of-document marker, a word
Pieces == {Sep, <<"-">>, <<NL>>, <<" ">>, <<"\t">>, <<"\r">>, EndMarker, <<"x">>}

RECURSIVE Flatten(_)
Flatten(ps) == IF ps = << >> THEN << >> ELSE Head(ps) \o Flatten(Tail(ps))

\* the fragments droneConfigAppend may be given
Fragments == { Flatten(ps) : ps \in UNION { [1..n -> Pieces] : n \in 0..MaxParts } }

\* the accumulators droneConfigAppend may be given: none, one or two configs merged
Accumulators ==
    { << >>,
      droneConfigAppend(<< >>, <<ValidA>>),
      droneConfigAppend(<< >>, <<ValidA, ValidB>>) }

\* the engine starts from an accumulator; merged is the history of the fragments appended
InitText ==
    /\ pc = "text"
    /\ configData \in Accumulators
    /\ merged = << >>
    /\ result = NoResult
    /\ p = [concat |-> TRUE, fallback |-> FALSE, maxDepth |-> 2]
    /\ req = [Trigger |-> "@hook", Ref |-> <<"refs", "heads", "main">>,
              Before |-> "c0", After |-> "c1"]
    /\ changedFiles = NilSlice
    /\ fileIdx = 0
    /\ dir = << >>
    /\ done = FALSE
    /\ cache = {}
    /\ err = ErrNil
    /\ calls = << >>
    /\ other = NoOther

\* configData = p.droneConfigAppend(configData, fileContent)
TextAppend ==
    /\ pc = "text"
    /\ \E f \in Fragments :
         /\ configData' = droneConfigAppend(configData, <<f>>)
         /\ merged' = Append(merged, f)
    /\ pc' = "appended"
    /\ UNCHANGED <<p, req, changedFiles, fileIdx, dir, done, cache, err, result, calls, other>>

\* the cleanup of Find on a non-empty accumulator
TextCleanup ==
    /\ pc = "appended"
    /\ ~NoneFound(configData)
    /\ result' = [doc |-> Cleanup(configData), err |-> ErrNil]
    /\ pc' = "cleaned"
    /\ UNCHANGED <<p, req, changedFiles, fileIdx, dir, done, cache, configData, err, calls,
                   merged, other>>

\* the cleanup run a second time, on the document the first run returned
TextRecleanup ==
    /\ pc = "cleaned"
    /\ configData' = result.doc
    /\ result' = [doc |-> Cleanup(result.doc), err |-> ErrNil]
    /\ pc' = "recleaned"
    /\ UNCHANGED <<p, req, changedFiles, fileIdx, dir, done, cache, err, calls, merged, other>>

NextText == TextAppend \/ TextCleanup \/ TextRecleanup

SpecText == InitText /\ [][NextText]_vars

\* C11 (as claimed): the cleanup is idempotent: run on its own output it
\* returns that output unchanged.
C11_CleanupIdempotent ==
    pc = "recleaned" => result.doc = configData

\* a line holding a separator alone (trailing white space aside)
IsSepLine(line) == TrimRight(line, {" ", "\t", "\r", "\f"}) = Sep

\* a line of white space
IsBlankLine(line) == TrimRight(line, {" ", "\t", "\r", "\f"}) = << >>

\* the line holds three hyphens in a row somewhere
HoldsSep(line) == \E i \in 1..(Len(line) - 2) : SubSeq(line, i, i + 2) = Sep

\* every line of the text that holds three hyphens in a row is a separator line
SeparatorsOnOwnLine(text) ==
    LET ls == SplitLines(text, << >>)
    IN  \A i \in DOMAIN ls : HoldsSep(ls[i]) => IsSepLine(ls[i])

\* two separator lines of the text with nothing but blank lines between them
ConsecutiveSeparators(text) ==
    LET ls == SplitLines(text, << >>)
    IN  \E i, j \in DOMAIN ls :
          /\ i < j
          /\ IsSepLine(ls[i]) /\ IsSepLine(ls[j])
          /\ \A k \in (i + 1)..(j - 1) : IsBlankLine(ls[k])

\* C12 (as claimed): the cleanup turns each run of separator lines into one
\* separator line: when the separators of the accumulator (its end markers
\* stripped) are each on a line of their own, so are those of the returned
\* document, and no two of them are consecutive.
C12_RunsCollapseToSeparatorLine ==
    (pc = "cleaned" /\ SeparatorsOnOwnLine(StripEndMarkers(configData))) =>
        /\ SeparatorsOnOwnLine(result.doc)
        /\ ~ConsecutiveSeparators(result.doc)

\* the text is empty or ends with exactly one newline
EndsWithOneNewline(text) ==
    \/ text = << >>
    \/ /\ text[Len(text)] = NL
       /\ Len(text) >= 2 => text[Len(text) - 1] # NL

\* C13 (as claimed): the accumulator is empty or ends with exactly one newline
\* after an append, and the document Find returns ends with a newline.
C13_EndsWithNewline ==
    /\ pc = "appended" => EndsWithOneNewline(configData)
    /\ pc = "cleaned" => HasSuffix(result.doc, <<NL>>)

\* every symbol of the fragment is in the set
OnlyOf(frag, set) == \A i \in DOMAIN frag : frag[i] \in set

\* C14 (as claimed): appending a fragment of spaces, newlines, tabs and
\* carriage returns only leaves the accumulator unchanged.
C14_WhitespaceFragmentIsNoOp ==
    [][(pc = "text" /\ pc' = "appended"
          /\ OnlyOf(merged'[Len(merged')], {" ", NL, "\t", "\r"}))
       => configData' = configData]_vars

\* C14 (amended): appending an empty fragment or a fragment of spaces and
\* newlines only leaves the accumulator unchanged, whatever the accumulator.
C14_SpaceNewlineFragmentIsNoOp ==
    [][(pc = "text" /\ pc' = "appended"
          /\ OnlyOf(merged'[Len(merged')], {" ", NL}))
       => configData' = configData]_vars

\* C14 witness: a fragment of spaces and newlines appended to an accumulator
\* holding two configs
C14_Witness ==
    /\ pc = "appended"
    /\ Len(merged[1]) = MaxParts
    /\ OnlyOf(merged[1], {" ", NL})
    /\ \E i, j \in DOMAIN merged[1] : merged[1][i] = " " /\ merged[1][j] = NL
    /\ configData = droneConfigAppend(<< >>, <<ValidA, ValidB>>)


\* ============================================ the claims on the whole request
\* C15 (as claimed): for a build that is neither scheduled nor a pull request,
\* the revision range handed to the SCM's list-changes call starts at the
\* event's 'before' revision, or at '<after>~1' when 'before' is empty or the
\* all-zero hash.
C15_RangeStartsAtBefore ==
    (req.Trigger # "@cron" /\ ~IsPullRef(req.Ref) /\ pc # "start")
        => /\ Len(calls) >= 1
           /\ calls[1].api = "Git.ListChanges"
           /\ HasPrefix(calls[1].arg, BeforeRef(req))

\* the inner loop is left by this step with no error: the next changed file's
\* walk starts, or getScmConfigData returns the accumulator
WalkLeft ==
    /\ pc = "walk"
    /\ \/ pc' = "walk" /\ fileIdx' # fileIdx
       \/ pc' = "finish" /\ err' = ErrNil

\* C18 (as claimed): in single-match mode the walk of a changed file ends
\* before the root candidate has been processed only when a config of that
\* walk has been appended to the accumulator; an absent, already seen or
\* rejected candidate never stops the walk.
C18_EarlyStopOnlyAfterAppend ==
    [][(~p.concat /\ WalkLeft /\ Parent(dir) # << >>)
           => /\ configData' # configData
              /\ merged' = Append(merged, Candidate(Parent(dir)))]_vars

\* the candidate the walk of the current changed file looks at next: the one
\* of the file's directory first, one ancestor higher at each step, the root's
\* again in the step that ends the walk
NextCandidateIsAncestor ==
    pc = "walk" =>
        LET cs == CandidatesOf(changedFiles.elems[fileIdx])
            k == Len(changedFiles.elems[fileIdx].segs) - Len(dir) + 1
        IN  /\ k \in 1..(Len(cs) + 1)
            /\ Candidate(Parent(dir)) = cs[IF k > Len(cs) THEN Len(cs) ELSE k]

\* every path fetched by the locator is a candidate of a changed file
FetchedAreCandidates ==
    Walked =>
        \A i \in DOMAIN Fetches :
            \E j \in DOMAIN changedFiles.elems :
                \E k \in DOMAIN CandidatesOf(changedFiles.elems[j]) :
                    Fetches[i].arg = CandidatesOf(changedFiles.elems[j])[k]

\* C16: the walk of every changed file ends; each of its steps looks at the
\* candidate of the next ancestor, deepest first; a step that stays in the walk
\* moves one directory up; in concat mode a walk is left without an error only
\* once the root candidate has been looked at, which is then in the seen set;
\* and no path other than those candidates is fetched.
C16_WalkTerminatesOverAncestors ==
    /\ \A k \in 1..(MaxFiles + 1) :
           (pc = "walk" /\ fileIdx = k) ~> ~(pc = "walk" /\ fileIdx = k)
    /\ [](NextCandidateIsAncestor /\ FetchedAreCandidates)
    /\ [][(pc = "walk" /\ pc' = "walk" /\ fileIdx' = fileIdx)
             => dir # << >> /\ dir' = SubSeq(dir, 1, Len(dir) - 1)]_vars
    /\ [][(p.concat /\ WalkLeft)
             => dir = << >> /\ <<Config>> \in cache']_vars

\* C16 witness: concat mode, changed files a/b/x.go and w.go walked to the
\* root with no error: a/b, a and the root fetched, the root seen twice more
C16_Witness ==
    /\ pc = "done"
    /\ p.concat
    /\ err = ErrNil
    /\ Walked
    /\ Len(changedFiles.elems) = 2
    /\ changedFiles.elems[1].segs = <<"a", "b", "x.go">>
    /\ changedFiles.elems[2].segs = <<"w.go">>
    /\ [i \in DOMAIN Fetches |-> Fetches[i].arg]
           = <<<<"a", "b", Config>>, <<"a", Config>>, <<Config>>>>

\* ===================================== two requests served by one plugin
\* the locals of the Find call that is running
Local ==
    [req |-> req, pc |-> pc, changedFiles |-> changedFiles, fileIdx |-> fileIdx,
     dir |-> dir, done |-> done, cache |-> cache, configData |-> configData,
     err |-> err, result |-> result, calls |-> calls, merged |-> merged]

\* the locals of a Find call that has not started
Fresh(r) ==
    [req |-> r, pc |-> "start", changedFiles |-> NilSlice, fileIdx |-> 0,
     dir |-> << >>, done |-> FALSE, cache |-> {}, configData |-> << >>,
     err |-> ErrNil, result |-> NoResult, calls |-> << >>, merged |-> << >>]

\* the seen set kept in the plugin: a resumed call sees the other call's marks
SharedCache(own, theirs) == own \cup theirs

\* cache := map[string]bool{} is a local of each getScmConfigData call
OwnCache(own, theirs) == own

\* the two build events Find is called with at the same time: a push and a
\* pull request
TwoRequests ==
    << [Trigger |-> "@hook", Ref |-> <<"refs", "heads", "main">>, Before |-> "c0", After |-> "c1"],
       [Trigger |-> "@hook", Ref |-> <<"refs", "pull", "7", "head">>, Before |-> "c0", After |-> "c1"] >>

\* the changed-file lists and fetch answers of the two requests
TwoChangeLists ==
    { << >>,
      <<[abs |-> FALSE, segs |-> <<"a", "b", "x.go">>]>>,
      <<[abs |-> TRUE, segs |-> <<"a", "y.go">>]>>,
      <<[abs |-> TRUE, segs |-> <<"a", "y.go">>], [abs |-> FALSE, segs |-> <<"a", "b", "x.go">>]>> }

TwoOutcomes == {NotFound, Found(ValidA), Found(ValidB)}

InitTwo ==
    /\ p \in [concat : BOOLEAN, fallback : {TRUE}, maxDepth : {2}]
    /\ req = TwoRequests[1]
    /\ pc = "start"
    /\ changedFiles = NilSlice
    /\ fileIdx = 0
    /\ dir = << >>
    /\ done = FALSE
    /\ cache = {}
    /\ configData = << >>
    /\ err = ErrNil
    /\ result = NoResult
    /\ calls = << >>
    /\ merged = << >>
    /\ other = [id |-> 2, locals |-> Fresh(TwoRequests[2])]

\* the scheduler suspends the running Find call and resumes the other one
Switch ==
    /\ other # NoOther
    /\ other.locals.pc # "done"
    /\ other' = [id |-> 3 - other.id, locals |-> Local]
    /\ req' = other.locals.req
    /\ pc' = other.locals.pc
    /\ changedFiles' = other.locals.changedFiles
    /\ fileIdx' = other.locals.fileIdx
    /\ dir' = other.locals.dir
    /\ done' = other.locals.done
    /\ cache' = OwnCache(other.locals.cache, cache)
    /\ configData' = other.locals.configData
    /\ err' = other.locals.err
    /\ result' = other.locals.result
    /\ calls' = other.locals.calls
    /\ merged' = other.locals.merged
    /\ UNCHANGED p

\* the SCM's answers to the running call, among those of the two requests
TwoGetChanges == GetChanges /\ changedFiles'.elems \in TwoChangeLists

TwoWalkStep ==
    WalkStep /\ (calls' # calls => calls'[Len(calls')].out \in TwoOutcomes)

NextTwo == TwoGetChanges \/ TwoWalkStep \/ Scan \/ Finish \/ Switch

SpecTwo == InitTwo /\ [][NextTwo]_vars


\* the answer a call got for a path, if it asked for it
Unasked == [data |-> Nil, err |-> "unasked"]

AnswerTo(R, path) ==
    LET is == { i \in DOMAIN R.calls :
                  R.calls[i].api = "Contents.Find" /\ R.calls[i].arg = path }
    IN  IF is = {} THEN Unasked ELSE R.calls[CHOOSE i \in is : TRUE].out

\* the walk of a request served alone, from changed file i at directory d with
\* the seen set seen, given the answers the request got: the paths fetched, the
\* accumulator and the error
RECURSIVE AloneWalk(_, _, _, _, _)
AloneWalk(R, i, d, seen, st) ==
    LET files == R.changedFiles.elems
    IN  IF i > Len(files) THEN st
        ELSE
        LET dn == (d = << >>)
            up == IF d = << >> THEN << >> ELSE SubSeq(d, 1, Len(d) - 1)
            file == Append(up, Config)
            out == AnswerTo(R, file)
            r == getScmDroneConfig(out)
            Leave(s2, st2) ==
                AloneWalk(R, i + 1,
                          IF i < Len(files) THEN files[i + 1].segs ELSE << >>, s2, st2)
            Go(s2, st2) == IF dn THEN Leave(s2, st2) ELSE AloneWalk(R, i, up, s2, st2)
            st1 == [st EXCEPT !.fetched = Append(@, file)]
            s1 == seen \cup {file}
        IN  IF file \in seen THEN Go(seen, st)
            ELSE IF out = Unasked THEN [st EXCEPT !.err = "unasked"]
            ELSE IF r.err # ErrNil
                 THEN (IF r.critical THEN [st1 EXCEPT !.data = << >>, !.err = r.err]
                       ELSE Go(s1, st1))
            ELSE LET st2 == [st1 EXCEPT !.data = droneConfigAppend(@, <<r.configData>>)]
                 IN  IF p.concat THEN Go(s1, st2) ELSE Leave(s1, st2)

\* what Find returns to a request served alone whose change set is not nil
AloneRun(R) ==
    LET st == AloneWalk(R, 1, R.changedFiles.elems[1].segs, {},
                        [fetched |-> << >>, data |-> << >>, err |-> ErrNil])
    IN  [fetched |-> st.fetched,
         result |-> IF st.err # ErrNil THEN [doc |-> Nil, err |-> st.err]
                    ELSE IF st.data = << >>
                         THEN [doc |-> Nil, err |-> "did not find a .drone.yml"]
                    ELSE [doc |-> Cleanup(st.data), err |-> ErrNil]]

\* the paths a call has fetched, in order
FetchedBy(R) ==
    LET fs == SelectSeq(R.calls, LAMBDA c : c.api = "Contents.Find")
    IN  [i \in DOMAIN fs |-> fs[i].arg]

\* a call's seen set holds the paths the call itself has fetched and no other,
\* and once it has returned, what it fetched and returned is what it fetches
\* and returns when served alone
SameAsAlone(R) ==
    (~R.changedFiles.nil) =>
        /\ R.cache = { FetchedBy(R)[i] : i \in DOMAIN FetchedBy(R) }
        /\ R.pc = "done" =>
             /\ FetchedBy(R) = AloneRun(R).fetched
             /\ R.result = AloneRun(R).result

\* C17: under any interleaving of two Find calls on one plugin, each call's
\* seen set, fetched candidates and returned document are those of the call
\* served alone (a path one call has marked seen is still fetched by the
\* other), and the plugin's configuration fields are never written.
C17_RequestsDoNotInterfere ==
    /\ [](SameAsAlone(Local) /\ (other # NoOther => SameAsAlone(other.locals)))
    /\ [][p' = p]_vars

\* C17 witness: both calls have returned a document; the push changed
\* a/b/x.go, the pull request a/y.go, and each fetched a/.drone.yml and the
\* root's config itself
C17_Witness ==
    /\ other # NoOther
    /\ pc = "done" /\ other.locals.pc = "done"
    /\ result.err = ErrNil /\ other.locals.result.err = ErrNil
    /\ result.doc # other.locals.result.doc
    /\ \E R1 \in {Local, other.locals}, R2 \in {Local, other.locals} :
         /\ R1.req = TwoRequests[1] /\ R2.req = TwoRequests[2]
         /\ Len(R1.changedFiles.elems) = 1 /\ Len(R2.changedFiles.elems) = 1
         /\ R1.changedFiles.elems[1].segs = <<"a", "b", "x.go">>
         /\ R2.changedFiles.elems[1].segs = <<"a", "y.go">>
         /\ FetchedBy(R1) = <<<<"a", "b", Config>>, <<"a", Config>>, <<Config>>>>
         /\ FetchedBy(R2) = <<<<"a", Config>>, <<Config>>>>


====
